---- MODULE Spec2Model ----
(***************************************************************************)
(* Model of run.py: the Chair walking simulation (Chair.__init__,          *)
(* Chair._check_position, Chair.move), the grade thresholds and the        *)
(* Result.res_to_json store of the __main__ block.                         *)
(*                                                                         *)
(* Numbers.  Lengths, positions and steps are integers counted in a fixed  *)
(* unit (the reference chair of __main__ uses half units, RefUnit), so     *)
(* every addition of the code is exact both here and in binary floating    *)
(* point.  The trigonometric expression of move is evaluated exactly:      *)
(*   tan(acos(x)) = sqrt(1 - x^2) / x          for 0 < x <= 1,             *)
(*   tan(acos(0)) = 1.633123935319537e16       (the float the code gets),  *)
(*   asin(v) > atan(mu)  <=>  v > mu / sqrt(1 + mu^2)   for -1 <= v <= 1,  *)
(* and acos / asin raise ValueError outside [-1, 1].  The product          *)
(* tan(acos(|d|/L)) * w is kept as a signed square root of a rational and  *)
(* all comparisons are decided with integer arithmetic.                    *)
(***************************************************************************)
EXTENDS Integers, Sequences, FiniteSets, TLC

\* ---------------------------------------------------------------- bounds
MaxLeg == 3          \* length_leg ranges over 1..MaxLeg
MaxSeat == 4         \* length_chair ranges over 1..MaxSeat
MaxWay == 4          \* way_1, way_2 range over -1..MaxWay
MaxTime == 4         \* time ranges over 1..MaxTime
MaxTimeStep == 2     \* time_step ranges over 1..MaxTimeStep
MaxPause == 1        \* pause ranges over -MaxTimeStep..MaxPause
MaxIters == 3        \* iterations explored beyond `time` before the model stops
RefUnit == 2         \* the reference chair's lengths are counted in 1/RefUnit
MaxRefWay == 2       \* small steps of the task: 0..MaxRefWay, in 1/RefUnit
MaxSpread == 3       \* graded distances lie within MaxSpread of a threshold

\* ------------------------------------------------------- exact arithmetic
Abs(x) == IF x < 0 THEN -x ELSE x

Sign(x) == IF x < 0 THEN -1 ELSE IF x = 0 THEN 0 ELSE 1

RECURSIVE GCD(_, _)
GCD(a, b) == IF b = 0 THEN a ELSE GCD(b, a % b)

\* Compares a/b with c/d (a, c >= 0; b, d > 0) by their continued
\* fractions: -1, 0 or 1.  No product is formed, so nothing overflows.
RECURSIVE CmpFrac(_, _, _, _)
CmpFrac(a, b, c, d) ==
    LET qa == a \div b
        qc == c \div d
        ra == a % b
        rc == c % d
    IN  IF qa # qc THEN (IF qa < qc THEN -1 ELSE 1)
        ELSE IF ra = 0 /\ rc = 0 THEN 0
        ELSE IF ra = 0 THEN -1
        ELSE IF rc = 0 THEN 1
        ELSE CmpFrac(d, rc, b, ra)

\* floor(sqrt(n)) for 0 <= n <= bound * bound
ISqrt(n, bound) == CHOOSE s \in 0..bound : s * s <= n /\ n < (s + 1) * (s + 1)

\* Sign of (sqrt(n) + m)/d - a/b for a non-square n, by the continued
\* fraction of the quadratic irrational against Euclid's on a/b; s is
\* floor(sqrt(n)), a >= 0, b > 0, and d divides n - m*m.
RECURSIVE CmpQuadratic(_, _, _, _, _, _)
CmpQuadratic(n, s, m, d, a, b) ==
    LET ak == (s + m) \div d
        q == a \div b
        r == a % b
        m1 == d * ak - m
    IN  IF ak # q THEN (IF ak < q THEN -1 ELSE 1)
        ELSE IF r = 0 THEN 1
        ELSE -CmpQuadratic(n, s, m1, (n - m1 * m1) \div d, b, r)

\* Sign of sqrt(n) - a/b (n, a >= 0; b > 0; n <= bound * bound).
CmpSqrt(n, bound, a, b) ==
    LET s == ISqrt(n, bound)
    IN  IF s * s = n THEN CmpFrac(s, 1, a, b)
        ELSE CmpQuadratic(n, s, 0, 1, a, b)

\* math.tan(math.acos(abs(d) / L)) * w for abs(d) <= L, as the value
\* sgn * (kn / kd) * sqrt(n), n = L^2 - d^2, kn/kd = |w|/|d| in lowest
\* terms.  With d = 0 the code's tangent is the float 1.633e16: times
\* w = 0 it is 0.0, times any other w it is larger in size than every
\* length of the model (huge).
TanAcosTimes(L, d, w) ==
    IF d = 0
    THEN [huge |-> w # 0, sgn |-> Sign(w), kn |-> 0, kd |-> 1, n |-> L * L]
    ELSE LET g == GCD(Abs(w), Abs(d))
             n == L * L - d * d
         IN  [huge |-> FALSE,
              sgn |-> IF n = 0 THEN 0 ELSE Sign(w),
              kn |-> Abs(w) \div g,
              kd |-> Abs(d) \div g,
              n |-> n]

\* Sign of u - a/b for a value u of TanAcosTimes (b > 0).
SurdCmpRat(L, u, a, b) ==
    IF u.huge THEN u.sgn
    ELSE IF u.sgn # Sign(a) THEN (IF u.sgn < Sign(a) THEN -1 ELSE 1)
    ELSE IF u.sgn = 0 THEN 0
    ELSE LET g == GCD(u.kd, b)
         IN  u.sgn * CmpSqrt(u.n, L, Abs(a) * (u.kd \div g), (b \div g) * u.kn)

\* The argument v = (L - u) / S of math.asin lies outside [-1, 1].
AsinDomainError(L, S, u) ==
    \/ SurdCmpRat(L, u, L - S, 1) = -1
    \/ SurdCmpRat(L, u, L + S, 1) = 1

\* asin(v) > atan(mu) for mu = mu[1]/mu[2] >= 0 and v = (L - u)/S in
\* [-1, 1]:  L - u > S*p/sqrt(h), h = p^2 + q^2, that is u < L and
\* u < ((L^2 + u^2) h - S^2 p^2) / (2 L h).
AlphaExceeds(L, S, mu, u) ==
    LET p == mu[1]
        q == mu[2]
        h == p * p + q * q
        kd2 == u.kd * u.kd
    IN  /\ SurdCmpRat(L, u, L, 1) = -1
        /\ SurdCmpRat(L, u,
                      (L * L * kd2 + u.kn * u.kn * u.n) * h - S * S * p * p * kd2,
                      2 * L * h * kd2) = -1

\* Tilt with an offset beyond the leg clamped to the leg's length
\* instead of math.acos raising.
TiltClamped(L, S, mu, d, w) ==
    LET dc == IF Abs(d) > L THEN L ELSE d
        u == TanAcosTimes(L, dc, w)
    IN  IF AsinDomainError(L, S, u) THEN "ValueError"
        ELSE IF AlphaExceeds(L, S, mu, u) THEN "InvalidValueAngle"
        ELSE "ok"

\* Tilt reporting an offset beyond the leg as an exceeded angle.
TiltBeyondAsAngle(L, S, mu, d, w) ==
    IF Abs(d) > L THEN "InvalidValueAngle"
    ELSE LET u == TanAcosTimes(L, d, w)
         IN  IF AsinDomainError(L, S, u) THEN "ValueError"
             ELSE IF AlphaExceeds(L, S, mu, u) THEN "InvalidValueAngle"
             ELSE "ok"

\* Outcome of one tilt computation of move (lines 143-146 and 151-155):
\* d is the offset between seat edge and leg, w the step.
Tilt(L, S, mu, d, w) ==
    IF Abs(d) > L THEN "ValueError"
    ELSE LET u == TanAcosTimes(L, d, w)
         IN  IF AsinDomainError(L, S, u) THEN "ValueError"
             ELSE IF AlphaExceeds(L, S, mu, u) THEN "InvalidValueAngle"
             ELSE "ok"

\* ------------------------------------------------------------------ state
VARIABLES
    chair,        \* the Chair object: configuration and the four positions
    way_1,        \* move's argument: step of the front legs
    way_2,        \* move's argument: step of the back legs
    total_way,    \* move's local total_way
    timer,        \* move's local timer
    pc,           \* position in move: "idle", "front", "back", "check", "done"
    outcome,      \* "running", "returned", or the exception move raised
    iters,        \* completed iterations of move's loop (ghost counter)
    task,         \* the task module: student and whether the types are valid
    grades_json,  \* whether the file grades.json exists
    result_json,  \* the file result.json: whether it exists, and its mapping
    initial_json, \* result.json as it was when __main__ started (ghost)
    res,          \* __main__'s res, the distance move returned
    answer,       \* the grade computed by __main__, 0 before
    caught,       \* the exception caught by __main__'s except clause
    mainpc        \* position in __main__

mainVars == <<task, grades_json, result_json, initial_json, res, answer,
              caught, mainpc>>
vars == <<chair, way_1, way_2, total_way, timer, pc, outcome, iters,
          task, grades_json, result_json, initial_json, res, answer,
          caught, mainpc>>

\* ------------------------------------------------------------------ Chair
\* Chair.__init__: length_wood and wood_weight are stored and never read;
\* alpha_max = atan(wood_mu) is carried by wood_mu = <<p, q>>, mu = p/q.
ChairInit(length_leg, length_chair, time, pause, time_step, wood_mu) ==
    [length_leg |-> length_leg,
     length_chair |-> length_chair,
     wood_mu |-> wood_mu,
     time |-> time,
     pause |-> pause,
     time_step |-> time_step,
     pos_1 |-> length_chair,
     pos_2 |-> 0,
     pos_chair_1 |-> length_chair,
     pos_chair_2 |-> 0]

\* _check_position with non-strict comparisons.
CheckPositionNonStrict(c) ==
    \/ 2 * c.pos_chair_1 - (c.pos_chair_1 - c.pos_chair_2) >= 2 * c.pos_1
    \/ 2 * c.pos_chair_1 - (c.pos_chair_1 - c.pos_chair_2) <= 2 * c.pos_2

\* Chair._check_position raises InvalidValueError.  Both sides of the
\* code's comparisons are doubled, so the halving stays in the integers:
\*   pos_chair_1 - (pos_chair_1 - pos_chair_2) / 2 > pos_1   or   < pos_2.
CheckPositionRaises(c) ==
    \/ 2 * c.pos_chair_1 - (c.pos_chair_1 - c.pos_chair_2) > 2 * c.pos_1
    \/ 2 * c.pos_chair_1 - (c.pos_chair_1 - c.pos_chair_2) < 2 * c.pos_2

\* self.pos_1 += way_1
AfterFrontLeg(c, w1) == [c EXCEPT !.pos_1 = @ + w1]

\* The front seat edge left where it was.
AfterFrontSeatStuck(c, w1) == c

\* self.pos_chair_1 += way_1
AfterFrontSeat(c, w1) == [c EXCEPT !.pos_chair_1 = @ + w1]

\* The back seat edge advanced by the back step.
AfterBackSeatByBack(c, w1, w2) == [c EXCEPT !.pos_chair_2 = @ + w2]

\* self.pos_chair_2 += way_1
AfterBackSeat(c, w1, w2) == [c EXCEPT !.pos_chair_2 = @ + w1]

\* self.pos_2 += way_2
AfterBackLeg(c, w2) == [c EXCEPT !.pos_2 = @ + w2]

\* Both steps added to the distance.
AccumulateBoth(total, w1, w2) == total + w1 + w2

\* total_way += way_1
Accumulate(total, w1, w2) == total + w1

\* The timer left where it was.
AdvanceStuck(t, c) == t

\* timer += self.time_step + self.pause
Advance(t, c) == t + c.time_step + c.pause

\* while timer < self.time
LoopContinues(t, c) == t < c.time

\* alpha_1 of the front half-step, on the chair after pos_1 += way_1
FrontTilt(c, w1) ==
    Tilt(c.length_leg, c.length_chair, c.wood_mu, c.pos_chair_1 - c.pos_1, w1)

\* alpha_2 of the back half-step, on the chair after pos_chair_2 += way_1
BackTilt(c, w2) ==
    Tilt(c.length_leg, c.length_chair, c.wood_mu, c.pos_chair_2 - c.pos_2, w2)

\* The model counts and follows time + MaxIters iterations of one call.
\* Beyond them it follows only a call whose state has stopped changing
\* (zero steps and a timer that stands still): there the loop of the code
\* repeats one state for ever, and so does the model.
IterCap == chair.time + MaxIters
Stationary == way_1 = 0 /\ way_2 = 0 /\ chair.time_step + chair.pause = 0
WithinModel == iters < IterCap \/ Stationary

\* Front half-step of one iteration (lines 141-149).
MoveFront ==
    /\ pc = "front"
    /\ outcome = "running"
    /\ LoopContinues(timer, chair)
    /\ WithinModel
    /\ LET c1 == AfterFrontLeg(chair, way_1)
           r == FrontTilt(c1, way_1)
       IN  IF r # "ok"
           THEN /\ chair' = c1
                /\ outcome' = r
                /\ UNCHANGED <<total_way, timer, pc>>
           ELSE /\ chair' = AfterFrontSeat(c1, way_1)
                /\ total_way' = Accumulate(total_way, way_1, way_2)
                /\ timer' = Advance(timer, chair)
                /\ pc' = "back"
                /\ UNCHANGED outcome
    /\ UNCHANGED <<way_1, way_2, iters>>
    /\ UNCHANGED mainVars

\* Back half-step (lines 150-157).
MoveBack ==
    /\ pc = "back"
    /\ outcome = "running"
    /\ LET c1 == AfterBackSeat(chair, way_1, way_2)
           r == BackTilt(c1, way_2)
       IN  IF r # "ok"
           THEN /\ chair' = c1
                /\ outcome' = r
                /\ UNCHANGED <<timer, pc>>
           ELSE /\ chair' = AfterBackLeg(c1, way_2)
                /\ timer' = Advance(timer, chair)
                /\ pc' = "check"
                /\ UNCHANGED outcome
    /\ UNCHANGED <<way_1, way_2, total_way, iters>>
    /\ UNCHANGED mainVars

\* self._check_position() closing the iteration (line 158).
MoveCheck ==
    /\ pc = "check"
    /\ outcome = "running"
    /\ IF CheckPositionRaises(chair)
       THEN /\ outcome' = "InvalidValueError"
            /\ UNCHANGED <<pc, iters>>
       ELSE /\ pc' = "front"
            /\ iters' = IF iters < IterCap THEN iters + 1 ELSE iters
            /\ UNCHANGED outcome
    /\ UNCHANGED <<chair, way_1, way_2, total_way, timer>>
    /\ UNCHANGED mainVars

\* The loop test fails and move returns total_way (lines 141, 159).
MoveReturn ==
    /\ pc = "front"
    /\ outcome = "running"
    /\ ~LoopContinues(timer, chair)
    /\ pc' = "done"
    /\ outcome' = "returned"
    /\ UNCHANGED <<chair, way_1, way_2, total_way, timer, iters>>
    /\ UNCHANGED mainVars

\* --------------------------------------------- one call of move, any chair
NoEntry == "<none>"
Students == {"a", "b"}
\* JSON values of result.json: no entry, a number, a string
JNone == [t |-> "none"]
JNum(n) == [t |-> "num", n |-> n]
JStr(x) == [t |-> "str", s |-> x]
NoFile == [exists |-> FALSE, data |-> [n \in Students |-> JNone]]

\* wood_mu as <<p, q>> = p/q.  For these values sin(atan(mu)) is 0 or
\* irrational, so no tilt of the model ties with alpha_max (a tie is
\* decided by the rounding of asin and atan in the code).
Frictions == {<<0, 1>>, <<1, 2>>, <<1, 1>>, <<2, 1>>}

\* The state in which move is entered on a freshly constructed chair.
MoveEntry(c, w1, w2) ==
    /\ chair = c
    /\ way_1 = w1
    /\ way_2 = w2
    /\ total_way = 0
    /\ timer = 0
    /\ outcome = "running"
    /\ iters = 0

NoMain ==
    /\ task = [student |-> NoEntry, types_ok |-> TRUE]
    /\ grades_json = FALSE
    /\ result_json = NoFile
    /\ initial_json = NoFile
    /\ res = [m |-> 0, fn |-> 0, fd |-> 1]
    /\ answer = 0
    /\ caught = NoEntry
    /\ mainpc = "none"

Init ==
    /\ \E L \in 1..MaxLeg, S \in 1..MaxSeat, T \in 1..MaxTime,
          ts \in 1..MaxTimeStep, p \in (-MaxTimeStep)..MaxPause, mu \in Frictions,
          w1 \in (-1)..MaxWay, w2 \in (-1)..MaxWay :
            MoveEntry(ChairInit(L, S, T, p, ts, mu), w1, w2)
    /\ pc = "front"
    /\ NoMain

\* The calls followed for termination: every timing, a few geometries.
FairInit ==
    /\ \E L \in {1, 3}, S \in {2, 4}, T \in 1..MaxTime,
          ts \in 1..MaxTimeStep, p \in (-MaxTimeStep)..MaxPause,
          mu \in {<<1, 1>>, <<2, 1>>}, w1 \in 0..2, w2 \in 0..2 :
            MoveEntry(ChairInit(L, S, T, p, ts, mu), w1, w2)
    /\ pc = "front"
    /\ NoMain

Next == MoveFront \/ MoveBack \/ MoveCheck \/ MoveReturn

Spec == Init /\ [][Next]_vars

\* move runs to its end without being suspended (section 5: synchronous).
FairSpec == FairInit /\ [][Next]_vars /\ WF_vars(Next)

\* ------------------------------------------------------------ __main__
\* chair = Chair(40, 60, 80, 2, 1000, 2, 2, 0.1), lengths in 1/RefUnit.
RefChair == ChairInit(60 * RefUnit, 80 * RefUnit, 1000, 2, 2, <<1, 10>>)

\* A distance as m/1000 + (fn/fd)/1000 with 0 <= fn/fd < 1.
DistOf(total, unit) ==
    [m |-> (1000 * total) \div unit, fn |-> (1000 * total) % unit, fd |-> unit]

\* Sign of x - y for two distances.
DistCmp(x, y) ==
    IF x.m # y.m THEN (IF x.m < y.m THEN -1 ELSE 1)
    ELSE CmpFrac(x.fn, x.fd, y.fn, y.fd)

\* 3733.022748825491
Threshold == [m |-> 3733022, fn |-> 748825491, fd |-> 1000000000]

\* 0.99 * 3733.022748825491, the float 3695.692521337236
Threshold99 == [m |-> 3695692, fn |-> 521337236, fd |-> 1000000000]

\* The thresholds with the second comparison made non-strict.
GradeInclusive(r) ==
    IF DistCmp(r, Threshold) >= 0 THEN 5
    ELSE IF DistCmp(r, Threshold99) >= 0 THEN 4
    ELSE 3

\* answer of lines 169-174
Grade(r) ==
    IF DistCmp(r, Threshold) >= 0 THEN 5
    ELSE IF DistCmp(r, Threshold99) > 0 THEN 4
    ELSE 3

\* str(e) of the exceptions reaching the except clause; the angle that
\* InvalidValueAngle prints is not computed by the model.
StrOf(e) ==
    CASE e = "InvalidValueError" -> "InvalidValueError.message"
      [] e = "InvalidValueAngle" -> "Znachenie <alpha> - InvalidValueAngle.message"
      [] e = "ValueError" -> "math domain error"
      [] e = "FileNotFoundError" -> "[Errno 2] No such file or directory: 'result.json'"

\* Result.res_to_json: the file read and rewritten is result.json, which
\* open(..., 'r') requires to exist; raised tells FileNotFoundError.
ResToJson(file, name, value) ==
    IF file.exists
    THEN [raised |-> FALSE, file |-> [file EXCEPT !.data[name] = value]]
    ELSE [raised |-> TRUE, file |-> file]

MoveFailures == {"InvalidValueAngle", "InvalidValueError", "ValueError"}

\* The type test of line 164, and the print of line 181.
MainStart ==
    /\ mainpc = "start"
    /\ IF task.types_ok
       THEN pc' = "front" /\ mainpc' = "move"
       ELSE pc' = pc /\ mainpc' = "exit"
    /\ UNCHANGED <<chair, way_1, way_2, total_way, timer, outcome, iters>>
    /\ UNCHANGED <<task, grades_json, result_json, initial_json, res, answer, caught>>

\* res = chair.move(way_1, way_2) returned (line 168).
MainReturn ==
    /\ mainpc = "move"
    /\ outcome = "returned"
    /\ res' = DistOf(total_way, RefUnit)
    /\ mainpc' = "grade"
    /\ UNCHANGED <<chair, way_1, way_2, total_way, timer, pc, outcome, iters>>
    /\ UNCHANGED <<task, grades_json, result_json, initial_json, answer, caught>>

\* The thresholds (lines 169-174).
MainGrade ==
    /\ mainpc = "grade"
    /\ answer' = Grade(res)
    /\ mainpc' = "store"
    /\ UNCHANGED <<chair, way_1, way_2, total_way, timer, pc, outcome, iters>>
    /\ UNCHANGED <<task, grades_json, result_json, initial_json, res, caught>>

\* Result(answer, name).res_to_json() inside the try (lines 175-176).
MainStore ==
    /\ mainpc = "store"
    /\ LET r == ResToJson(result_json, task.student, JNum(answer))
       IN  /\ grades_json' = TRUE
           /\ result_json' = r.file
           /\ IF r.raised
              THEN caught' = "FileNotFoundError" /\ mainpc' = "except"
              ELSE caught' = caught /\ mainpc' = "exit"
    /\ UNCHANGED <<chair, way_1, way_2, total_way, timer, pc, outcome, iters>>
    /\ UNCHANGED <<task, initial_json, res, answer>>

\* move raised: except Exception as e (line 177).
MainCatch ==
    /\ mainpc = "move"
    /\ outcome \in MoveFailures
    /\ caught' = outcome
    /\ mainpc' = "except"
    /\ UNCHANGED <<chair, way_1, way_2, total_way, timer, pc, outcome, iters>>
    /\ UNCHANGED <<task, grades_json, result_json, initial_json, res, answer>>

\* Result(str(e), name).res_to_json() in the except clause (lines
\* 178-179); an exception raised here is caught by nothing.
MainExcept ==
    /\ mainpc = "except"
    /\ LET r == ResToJson(result_json, task.student, JStr(StrOf(caught)))
       IN  /\ grades_json' = TRUE
           /\ result_json' = r.file
           /\ mainpc' = IF r.raised THEN "crash" ELSE "exit"
    /\ UNCHANGED <<chair, way_1, way_2, total_way, timer, pc, outcome, iters>>
    /\ UNCHANGED <<task, initial_json, res, answer, caught>>

\* Steps of the task: small ones, half the leg, and beyond the leg.
TaskWays == (0..MaxRefWay) \cup {30 * RefUnit, 60 * RefUnit + 1}

\* result.json before the run: absent, or any mapping of the students to
\* nothing or to an earlier entry.
JsonFiles ==
    {NoFile} \cup {[exists |-> TRUE, data |-> d] :
                      d \in [Students -> {JNone, JStr("old"), JNum(3)}]}

MainInit ==
    /\ \E w1 \in TaskWays, w2 \in TaskWays : MoveEntry(RefChair, w1, w2)
    /\ pc = "idle"
    /\ task \in [student : Students, types_ok : BOOLEAN]
    /\ grades_json \in BOOLEAN
    /\ result_json \in JsonFiles
    /\ initial_json = result_json
    /\ res = [m |-> 0, fn |-> 0, fd |-> 1]
    /\ answer = 0
    /\ caught = NoEntry
    /\ mainpc = "start"

MainNext ==
    \/ MainStart
    \/ MoveFront
    \/ MoveBack
    \/ MoveCheck
    \/ MoveReturn
    \/ MainReturn
    \/ MainGrade
    \/ MainStore
    \/ MainCatch
    \/ MainExcept

MainSpec == MainInit /\ [][MainNext]_vars

\* The thresholds alone, applied to distances around them: every
\* distance m/1000 + fn/10^12 with m within MaxSpread of a threshold's and
\* fn zero, the threshold's, or next to it.
GradeSamples ==
    {[m |-> t.m + dm, fn |-> f, fd |-> t.fd] :
        t \in {Threshold, Threshold99},
        dm \in (-MaxSpread)..MaxSpread,
        f \in {0, 521337235, 521337236, 521337237, 748825490, 748825491, 748825492}}

GradeInit ==
    /\ MoveEntry(RefChair, 0, 0)
    /\ pc = "done"
    /\ task \in [student : Students, types_ok : {TRUE}]
    /\ grades_json = FALSE
    /\ result_json = NoFile
    /\ initial_json = NoFile
    /\ res \in GradeSamples
    /\ answer = 0
    /\ caught = NoEntry
    /\ mainpc = "grade"

GradeNext == MainGrade

GradeSpec == GradeInit /\ [][GradeNext]_vars

\* ------------------------------------------------------ claims on move
L0 == chair.length_leg
S0 == chair.length_chair
Moved == outcome = "running" \/ outcome = "returned"
\* Front half-steps performed so far.
FrontHalfSteps == iters + (IF pc \in {"back", "check"} THEN 1 ELSE 0)
\* The first front tilt of the call has been computed.
FrontComputed == pc # "front" \/ outcome # "running" \/ iters > 0
\* Twice the seat midpoint pos_chair_1 - (pos_chair_1 - pos_chair_2)/2.
Mid2 == chair.pos_chair_1 + chair.pos_chair_2
\* The state is the one an iteration left behind (its check passed).
IterationCompleted == iters > 0 /\ pc \in {"front", "done"} /\ Moved

\* Sign of ua - ub for two values of TanAcosTimes.
SurdCmp(ua, ub) ==
    LET ra == IF ua.huge THEN 2 * ua.sgn ELSE ua.sgn
        rb == IF ub.huge THEN 2 * ub.sgn ELSE ub.sgn
    IN  IF ra # rb THEN (IF ra < rb THEN -1 ELSE 1)
        ELSE IF ua.huge \/ ua.sgn = 0 THEN 0
        ELSE ua.sgn * CmpFrac(ua.kn * ua.kn * ua.n, ua.kd * ua.kd,
                              ub.kn * ub.kn * ub.n, ub.kd * ub.kd)

\* The argument of asin in the first front half-step, (L - u)/S, for the
\* step a is at most the one for the step b (asin is increasing, so this
\* orders the angles wherever both exist).
FrontArgLeq(a, b) ==
    SurdCmp(TanAcosTimes(L0, -a, a), TanAcosTimes(L0, -b, b)) >= 0

\* C1, as claimed: with way_1 = way_2 = 0 move never raises and returns 0
\* (stated for the configurations with pause >= 0 and wood_mu > 0 only).
C1_ZeroStepsReturnZero ==
    (way_1 = 0 /\ way_2 = 0 /\ chair.pause >= 0 /\ chair.wood_mu[1] > 0) =>
        (Moved /\ total_way = 0)

\* C3, as claimed: a larger front step never gives a smaller front tilt,
\* and the largest steps make move raise InvalidValueAngle.
C3_MonotoneThenAngle ==
    FrontComputed =>
        /\ \A b \in way_1..MaxWay :
              (Abs(way_1) <= L0 /\ Abs(b) <= L0) => FrontArgLeq(way_1, b)
        /\ way_1 = MaxWay => outcome = "InvalidValueAngle"

\* C3, amended: over front steps in (0, length_leg] a larger step never
\* gives a smaller asin argument (front tilt); the step 0 gives
\* length_leg/length_chair, the largest argument of all steps in
\* [0, length_leg]; every front step above length_leg makes move raise
\* ValueError in the first front half-step, not InvalidValueAngle.
C3_MonotoneOnPositive ==
    FrontComputed =>
        /\ \A b \in way_1..MaxWay :
              (0 < way_1 /\ b <= L0) => FrontArgLeq(way_1, b)
        /\ (0 <= way_1 /\ way_1 <= L0) => FrontArgLeq(way_1, 0)
        /\ way_1 > L0 =>
              outcome = "ValueError" /\ pc = "front" /\ iters = 0 /\ total_way = 0

C3_Witness ==
    /\ way_1 > L0
    /\ outcome = "ValueError"
    /\ pc = "front"

\* C4: a tilt computation whose offset between seat edge and leg exceeds
\* length_leg makes move raise ValueError (neither InvalidValueAngle nor
\* InvalidValueError), and move returns nothing.
C4_OffsetBeyondLegRaises ==
    [][ /\ ( /\ pc = "front" /\ outcome = "running"
             /\ Abs(chair.pos_chair_1 - (chair.pos_1 + way_1)) > L0 )
            => (outcome' = "ValueError" /\ pc' = "front")
        /\ ( /\ pc = "back" /\ outcome = "running"
             /\ Abs((chair.pos_chair_2 + way_1) - chair.pos_2) > L0 )
            => (outcome' = "ValueError" /\ pc' = "back")
        /\ (outcome = "ValueError" => outcome' = "ValueError") ]_vars

C4_Witness ==
    /\ outcome = "ValueError"
    /\ pc = "back"
    /\ iters > 0
    /\ Abs(chair.pos_chair_2 - chair.pos_2) > L0

\* C5: the check closing an iteration raises InvalidValueError exactly
\* when the seat midpoint is strictly above pos_1 or strictly below pos_2;
\* a midpoint equal to pos_2 or to pos_1 passes.
C5_StrictCheck ==
    /\ (pc = "check" /\ outcome = "InvalidValueError")
          => (Mid2 > 2 * chair.pos_1 \/ Mid2 < 2 * chair.pos_2)
    /\ IterationCompleted
          => (2 * chair.pos_2 <= Mid2 /\ Mid2 <= 2 * chair.pos_1)

C5_Witness ==
    /\ IterationCompleted
    /\ Mid2 = 2 * chair.pos_2

\* C8, as claimed (move terminates whatever pause is), in the instance
\* way_1 = way_2 = 0 and pause = -time_step, where the state of a call
\* that does not terminate repeats exactly.
C8_Terminates == Stationary => <>(outcome # "running")

\* C8, amended: when time_step + pause > 0 (the timer advances), move
\* terminates: it returns or raises one of the three exceptions.
C8_TerminatesWhenTimerAdvances ==
    (chair.time_step + chair.pause > 0) =>
        <>(outcome \in {"returned", "InvalidValueAngle", "InvalidValueError", "ValueError"})

C8_Witness ==
    /\ chair.time_step + chair.pause > 0
    /\ outcome = "returned"
    /\ iters >= 2

\* C9: every completed iteration leaves pos_chair_1 = pos_1 and
\* pos_chair_1 - pos_chair_2 = length_chair; InvalidValueError arises only
\* with the midpoint below pos_2, and never when way_2 <= way_1.
C9_SeatKeepsLength ==
    /\ IterationCompleted =>
          /\ chair.pos_chair_1 = chair.pos_1
          /\ chair.pos_chair_1 - chair.pos_chair_2 = S0
    /\ pc = "check" => Mid2 <= 2 * chair.pos_1
    /\ outcome = "InvalidValueError" => (Mid2 < 2 * chair.pos_2 /\ way_2 > way_1)

C9_Witness ==
    /\ IterationCompleted
    /\ iters >= 2
    /\ way_2 < way_1
    /\ way_1 > 0

\* C10: at every front tilt the offset pos_1 - pos_chair_1 is way_1, and
\* a front half-step raises only in the first iteration, before any
\* distance is accumulated.
C10_FrontFailsFirst ==
    /\ (pc = "front" /\ outcome = "running") => chair.pos_1 = chair.pos_chair_1
    /\ (pc = "front" /\ outcome \in {"ValueError", "InvalidValueAngle"})
          => /\ chair.pos_1 - chair.pos_chair_1 = way_1
             /\ iters = 0
             /\ total_way = 0

C10_Witness ==
    /\ pc = "back"
    /\ iters >= 1
    /\ way_1 # 0

\* ---------------------------------------------------- claims on __main__
\* Full cycles of the loop: time / (2 * (time_step + pause)).
FullCycles == chair.time \div (2 * (chair.time_step + chair.pause))

\* C2: on the reference chair, equal small positive steps never make move
\* raise; the distance is way_1 times the front half-steps performed (way_2
\* is never added), and move returns way_1 * 125 after 125 full cycles.
C2_EqualSmallSteps ==
    (way_1 = way_2 /\ 0 < way_1 /\ way_1 <= MaxRefWay /\ pc # "idle") =>
        /\ Moved
        /\ total_way = way_1 * FrontHalfSteps
        /\ outcome = "returned" =>
              /\ FrontHalfSteps = FullCycles
              /\ total_way = way_1 * FullCycles
        /\ mainpc \in {"grade", "store", "exit", "except", "crash"} =>
              DistCmp(res, DistOf(way_1 * FullCycles, RefUnit)) = 0

C2_Witness ==
    /\ 2 * way_1 = RefUnit
    /\ way_2 = way_1
    /\ outcome = "returned"
    /\ FullCycles = 125
    /\ 2 * total_way = 125 * RefUnit

\* C6, as claimed: with valid types the run ends without an uncaught
\* exception, result.json maps the student to the grade or to str(e),
\* and the other entries are as they were.
C6_StoreUpdated ==
    (task.types_ok /\ mainpc \in {"exit", "crash"}) =>
        /\ mainpc = "exit"
        /\ result_json.exists
        /\ result_json.data[task.student] =
              (IF outcome = "returned" THEN JNum(answer) ELSE JStr(StrOf(outcome)))
        /\ \A n \in Students \ {task.student} :
              result_json.data[n] = initial_json.data[n]

\* Order of two distances with the same fd.
DistBelow(x, y) == x.m < y.m \/ (x.m = y.m /\ x.fn < y.fn)

\* C7: a distance >= 3733.022748825491 is graded 5, one above 0.99 times
\* that and below it is graded 4, every other one (0.99 times it included)
\* is graded 3.
C7_GradeThresholds ==
    mainpc = "store" =>
        /\ answer \in {3, 4, 5}
        /\ answer = 5 <=> ~DistBelow(res, Threshold)
        /\ answer = 4 <=> (DistBelow(Threshold99, res) /\ DistBelow(res, Threshold))
        /\ answer = 3 <=> ~DistBelow(Threshold99, res)

C7_Witness ==
    /\ mainpc = "store"
    /\ res = Threshold99
    /\ answer = 3

====
